---- MODULE Spec2Model ----
(***************************************************************************)
(* Model of `hub ci-status` (src/commands/ci_status.go): argument          *)
(* resolution, the check fetch, the aggregation of the per-check states    *)
(* into one overall state, the exit code switch and the verbose renderer.  *)
(***************************************************************************)
EXTENDS Integers, Sequences, FiniteSets, TLC

(* ------------------------------ bounds --------------------------------- *)

\* longest fetched check list
MaxChecks == 3

(* ------------------------- state vocabulary --------------------------- *)

\* ci_status.go:69-78
severityList ==
    << "neutral", "success", "pending", "cancelled", "timed_out",
       "action_required", "failure", "error" >>

Recognized == { severityList[i] : i \in 1..Len(severityList) }

\* state strings a fetched check may carry that are not in severityList
UnrecognizedStates == { "unknown_state" }

CheckStates == Recognized \cup UnrecognizedStates

\* every string the variable `state` of ciStatus is compared on
AllStates == CheckStates \cup { "" }

\* faulty variant of checkSeverity: "pending" and "cancelled" change places
checkSeveritySwapped(targetState) ==
    LET l == << "neutral", "success", "cancelled", "pending", "timed_out",
                "action_required", "failure", "error" >>
    IN  IF \E i \in 1..Len(l) : l[i] = targetState
        THEN (CHOOSE i \in 1..Len(l) : l[i] = targetState) - 1
        ELSE 0 - 1

\* faulty variant of checkSeverity: a state that is not found gets the list length
checkSeverityNotFoundHigh(targetState) ==
    IF \E i \in 1..Len(severityList) : severityList[i] = targetState
    THEN (CHOOSE i \in 1..Len(severityList) : severityList[i] = targetState) - 1
    ELSE IF targetState = "" THEN 0 - 1 ELSE Len(severityList)

\* ci_status.go:81-88 (Go indexes from 0)
checkSeverity(targetState) ==
    IF \E i \in 1..Len(severityList) : severityList[i] = targetState
    THEN (CHOOSE i \in 1..Len(severityList) : severityList[i] = targetState) - 1
    ELSE 0 - 1

\* faulty variant of stateRank: the default bucket is shown last
stateRankDefaultLast(s) ==
    IF s \in { "failure", "error", "action_required", "cancelled", "timed_out" }
    THEN 1
    ELSE 3

\* ci_status.go:271-280
stateRank(s) ==
    IF s \in { "failure", "error", "action_required", "cancelled", "timed_out" }
    THEN 1
    ELSE IF s \in { "success", "neutral" }
         THEN 3
         ELSE 2

(* ---------------------------- aggregation ----------------------------- *)

\* ci_status.go:130-134, the loop body applied from index i on
RECURSIVE aggregateFrom(_, _, _)
aggregateFrom(statuses, i, st) ==
    IF i > Len(statuses)
    THEN st
    ELSE aggregateFrom(statuses, i + 1,
             IF checkSeverity(statuses[i].State) > checkSeverity(st)
             THEN statuses[i].State
             ELSE st)

\* ci_status.go:128-135
aggregate(statuses) ==
    IF Len(statuses) > 0 THEN aggregateFrom(statuses, 1, "") ELSE ""

\* faulty variant of exitCodeOf: "pending" falls into the failing case
exitCodeOfPendingFails(st) ==
    IF st \in { "success", "neutral" } THEN 0
    ELSE IF st \in { "failure", "error", "action_required", "cancelled",
                     "timed_out", "pending" } THEN 1
    ELSE 3

\* faulty variant of exitCodeOf: the empty state is special-cased to 0
exitCodeOfEmptyZero(st) ==
    IF st \in { "success", "neutral", "" } THEN 0
    ELSE IF st \in { "failure", "error", "action_required", "cancelled",
                     "timed_out" } THEN 1
    ELSE IF st = "pending" THEN 2
    ELSE 3

\* ci_status.go:137-147
exitCodeOf(st) ==
    IF st \in { "success", "neutral" } THEN 0
    ELSE IF st \in { "failure", "error", "action_required", "cancelled",
                     "timed_out" } THEN 1
    ELSE IF st = "pending" THEN 2
    ELSE 3

(* ------------------------- verbose renderer --------------------------- *)

\* faulty variant of lessByRank: "not after" instead of "before"
lessByRankOrEqual(x, y) == stateRank(x.State) <= stateRank(y.State)

\* ci_status.go:173-175, the less closure handed to sort.SliceStable
lessByRank(x, y) == stateRank(x.State) < stateRank(y.State)

\* sort.SliceStable's insertion step: element j sinks while it is less than
\* its left neighbour (swap(j, j-1))
RECURSIVE sink(_, _)
sink(s, j) ==
    IF j > 1 /\ lessByRank(s[j], s[j - 1])
    THEN sink([s EXCEPT ![j] = s[j - 1], ![j - 1] = s[j]], j - 1)
    ELSE s

\* sort.SliceStable on a slice shorter than its block size of 20: one
\* insertion sort over the whole slice (ci_status.go:173)
RECURSIVE SliceStableFrom(_, _)
SliceStableFrom(s, i) ==
    IF i > Len(s) THEN s ELSE SliceStableFrom(sink(s, i), i + 1)

SliceStable(s) == SliceStableFrom(s, 2)

\* ci_status.go:166-171
RECURSIVE contextWidthFrom(_, _, _)
contextWidthFrom(statuses, i, w) ==
    IF i > Len(statuses)
    THEN w
    ELSE contextWidthFrom(statuses, i + 1,
             IF Len(statuses[i].Context) > w THEN Len(statuses[i].Context) ELSE w)

\* ci_status.go:180-193; the glyphs are written by their code points
stateMarker(s) ==
    IF s = "success" THEN "U+2714"
    ELSE IF s \in { "failure", "error", "action_required", "cancelled", "timed_out" }
         THEN "U+2716"
    ELSE IF s = "neutral" THEN "U+25E6"
    ELSE IF s = "pending" THEN "U+25CF"
    ELSE ""

\* faulty variant of stateColor: "pending" is coloured like a failure
stateColorPendingRed(s) ==
    IF s = "success" THEN 32
    ELSE IF s \in { "failure", "error", "action_required", "cancelled",
                    "timed_out", "pending" }
         THEN 31
    ELSE IF s = "neutral" THEN 30
    ELSE 0

\* ci_status.go:178-193; `var color int` starts at 0
stateColor(s) ==
    IF s = "success" THEN 32
    ELSE IF s \in { "failure", "error", "action_required", "cancelled", "timed_out" }
         THEN 31
    ELSE IF s = "neutral" THEN 30
    ELSE IF s = "pending" THEN 33
    ELSE 0

\* fmt.Sprintf("\033[%dm", color), the escape byte written as \033
colorEscape(color) == "\\033[" \o ToString(color) \o "m"

\* ci_status.go:195-204, placeholders["sC"]
placeholderSC(s, colorize) ==
    IF colorize THEN colorEscape(stateColor(s)) ELSE ""

\* ci_status.go:206-213
effectiveFormat(status, formatString, contextWidth) ==
    IF formatString # ""
    THEN formatString
    ELSE IF status.TargetUrl = ""
         THEN "%sC" \o stateMarker(status.State) \o "%Creset\t%t\n"
         ELSE "%sC" \o stateMarker(status.State) \o "%Creset\t%<("
                  \o ToString(contextWidth) \o ")%t\t%U\n"

\* one ui.Print(ui.Expand(format, placeholders, colorize)) call,
\* ci_status.go:177-215; marker records the glyph chosen for the check
expandEntry(status, formatString, colorize, contextWidth) ==
    [ kind     |-> "expand",
      text     |-> "",
      format   |-> effectiveFormat(status, formatString, contextWidth),
      S        |-> status.State,
      sC       |-> placeholderSC(status.State, colorize),
      t        |-> status.Context,
      U        |-> status.TargetUrl,
      marker   |-> stateMarker(status.State),
      colorize |-> colorize ]

\* ci_status.go:165-216: the slice after the call and what was printed
ciVerboseFormat(statuses, formatString, colorize) ==
    LET contextWidth == contextWidthFrom(statuses, 1, 0)
        sorted       == SliceStable(statuses)
    IN  [ statuses |-> sorted,
          printed  |-> [ i \in 1..Len(sorted) |->
                           expandEntry(sorted[i], formatString, colorize,
                                       contextWidth) ] ]

\* ui.Println / ui.Printf of one line
printedLine(text) ==
    [ kind |-> "println", text |-> text, format |-> "", S |-> "", sC |-> "",
      t |-> "", U |-> "", marker |-> "", colorize |-> FALSE ]

(* ------------------------ argument resolution ------------------------- *)

Digits == { "0", "1", "2", "3", "4", "5", "6", "7", "8", "9" }

\* a text given character by character, as one string
RECURSIVE join(_)
join(chars) == IF chars = <<>> THEN "" ELSE Head(chars) \o join(Tail(chars))

\* the longest run of digits at the start of chars (the regexp's \d+)
RECURSIVE leadingDigits(_)
leadingDigits(chars) ==
    IF chars # <<>> /\ Head(chars) \in Digits
    THEN <<Head(chars)>> \o leadingDigits(Tail(chars))
    ELSE <<>>

\* ci_status.go:218-225, ^PR(\d+)$ : the digits, or <<>> for ""
pullRequestId(chars) ==
    IF /\ Len(chars) >= 3
       /\ chars[1] = "P" /\ chars[2] = "R"
       /\ \A i \in 3..Len(chars) : chars[i] \in Digits
    THEN SubSeq(chars, 3, Len(chars))
    ELSE <<>>

\* ci_status.go:246-252: the parsed URL, or <<>> for nil.  What
\* github.ParseURL makes of the argument is carried by the argument.
pullRequestUrl(arg) == arg.url

\* ci_status.go:255-261, ^pull/(\d+) on the project path: the digits, or <<>>
pullRequestPathId(projectPath) ==
    IF /\ Len(projectPath) >= 6
       /\ SubSeq(projectPath, 1, 5) = << "p", "u", "l", "l", "/" >>
    THEN leadingDigits(SubSeq(projectPath, 6, Len(projectPath)))
    ELSE <<>>

\* pullRequest.Head.Sha of the pull request with this id
headSha(prId) == "sha-of-pr-" \o join(prId)

\* ci_status.go:227-244; outcome says which collaborator call fails, if any
getRefByPullRequestId(prId, outcome) ==
    IF outcome \in { "repo_err", "project_err" }
    THEN [ ref |-> "", err |-> TRUE, lookups |-> 0 ]
    ELSE IF outcome = "pr_err"
         THEN [ ref |-> "", err |-> TRUE, lookups |-> 1 ]
         ELSE [ ref |-> headSha(prId), err |-> FALSE, lookups |-> 1 ]

\* ci_status.go:254-269
getRefAndProjectByUrl(url, outcome) ==
    IF pullRequestPathId(url.ProjectPath) = <<>>
    THEN [ ref |-> "", project |-> "", err |-> TRUE, lookups |-> 0 ]
    ELSE IF outcome = "pr_err"
         THEN [ ref |-> "", project |-> "", err |-> TRUE, lookups |-> 1 ]
         ELSE [ ref |-> headSha(pullRequestPathId(url.ProjectPath)),
                project |-> url.Project, err |-> FALSE, lookups |-> 1 ]

\* utils.Check(err): a non-nil error ends the process at once, as a hard
\* failure that is none of the exits of the exit-code switch
Check(err, next) == IF err THEN "fatal" ELSE next

(* ------------------------------ inputs -------------------------------- *)

TextArg(chars) == [ text |-> chars, url |-> <<>> ]

UrlArg(path) ==
    [ text |-> << "h", "t", "t", "p", "s", ":", "/", "/" >> \o path,
      url  |-> << [ Project |-> "owner/repo", ProjectPath |-> path ] >> ]

ArgSamples ==
    { TextArg(<< "P", "R", "7" >>),
      TextArg(<< "P", "R", "x" >>),
      UrlArg(<< "p", "u", "l", "l", "/", "7" >>),
      UrlArg(<< "p", "u", "l", "l", "/" >>),
      UrlArg(<< "i", "s", "s", "u", "e", "s", "/", "7" >>) }

\* the name of the i-th check of a fetched list: "c", "ci", "cii", ...
RECURSIVE ContextOf(_)
ContextOf(i) == IF i <= 1 THEN "c" ELSE ContextOf(i - 1) \o "i"

\* the i-th check of a fetched list; every second one carries a URL
CheckAt(i, st) ==
    [ State     |-> st,
      Context   |-> ContextOf(i),
      TargetUrl |-> IF i % 2 = 0 THEN "http://ci/" \o ContextOf(i) ELSE "" ]

CheckLists ==
    UNION { { [ i \in 1..n |-> CheckAt(i, f[i]) ] : f \in [ 1..n -> CheckStates ] }
            : n \in 0..MaxChecks }

FormatSamples == { "%sC%S%Creset %t%n" }

(* ------------------------------- state -------------------------------- *)

VARIABLES
    pc,             \* where ciStatus is
    params,         \* args.Params: no argument, or one
    noop,           \* args.Noop
    ref,            \* ci_status.go:91
    project,        \* ci_status.go:93; "" is nil
    sha,            \* ci_status.go:115
    Statuses,       \* response.Statuses, the slice the renderer is handed
    fetched,        \* response.Statuses as FetchCIStatus returned it
    state,          \* ci_status.go:128
    exitCode,       \* <<>> while running, <<c>> after os.Exit(c)
    flagVerbose,    \* args.Flag.Bool("--verbose")
    formatReceived, \* args.Flag.HasReceived("--format")
    formatValue,    \* args.Flag.Value("--format")
    colorize,       \* ci_status.go:151
    rendered,       \* whether ciVerboseFormat was called
    output,         \* what was written to standard output, in order
    fetchCalls,     \* calls of gh.FetchCIStatus
    prLookups       \* calls of gh.PullRequest

vars ==
    << pc, params, noop, ref, project, sha, Statuses, fetched, state, exitCode,
       flagVerbose, formatReceived, formatValue, colorize, rendered, output,
       fetchCalls, prLookups >>

reportVars ==
    << Statuses, fetched, state, exitCode, flagVerbose, formatReceived,
       formatValue, colorize, rendered, output, fetchCalls >>

Init ==
    /\ pc = "start"
    /\ params \in { <<>> } \cup { << a >> : a \in ArgSamples }
    /\ noop \in BOOLEAN
    /\ ref = "HEAD"
    /\ project = ""
    /\ sha = ""
    /\ Statuses = <<>>
    /\ fetched = <<>>
    /\ state = ""
    /\ exitCode = <<>>
    /\ flagVerbose = FALSE
    /\ formatReceived = FALSE
    /\ formatValue = ""
    /\ colorize = FALSE
    /\ rendered = FALSE
    /\ output = <<>>
    /\ fetchCalls = 0
    /\ prLookups = 0

(* ------------------------------ ciStatus ------------------------------ *)

\* ci_status.go:91-94 with no parameter: ref stays "HEAD"
ResolveNoArg ==
    /\ pc = "start"
    /\ params = <<>>
    /\ pc' = "project"
    /\ UNCHANGED << params, noop, ref, project, sha, prLookups >>
    /\ UNCHANGED reportVars

\* ci_status.go:95-98, 104: PR<id>
ResolvePullRequestId ==
    /\ pc = "start"
    /\ params # <<>>
    /\ pullRequestId(params[1].text) # <<>>
    /\ \E outcome \in { "repo_err", "project_err", "pr_err", "ok" } :
         LET r == getRefByPullRequestId(pullRequestId(params[1].text), outcome)
         IN  /\ ref' = r.ref
             /\ prLookups' = prLookups + r.lookups
             /\ pc' = Check(r.err, "project")
    /\ params' = <<>>
    /\ UNCHANGED << noop, project, sha >>
    /\ UNCHANGED reportVars

\* ci_status.go:95-100, 104: a pull request URL
ResolvePullRequestUrl ==
    /\ pc = "start"
    /\ params # <<>>
    /\ pullRequestId(params[1].text) = <<>>
    /\ pullRequestUrl(params[1]) # <<>>
    /\ \E outcome \in { "pr_err", "ok" } :
         LET r == getRefAndProjectByUrl(pullRequestUrl(params[1])[1], outcome)
         IN  /\ ref' = r.ref
             /\ project' = r.project
             /\ prLookups' = prLookups + r.lookups
             /\ pc' = Check(r.err, "project")
    /\ params' = <<>>
    /\ UNCHANGED << noop, sha >>
    /\ UNCHANGED reportVars

\* ci_status.go:95-104: anything else is the ref itself
ResolvePlainRef ==
    /\ pc = "start"
    /\ params # <<>>
    /\ pullRequestId(params[1].text) = <<>>
    /\ pullRequestUrl(params[1]) = <<>>
    /\ ref' = join(params[1].text)
    /\ pc' = Check(FALSE, "project")
    /\ params' = <<>>
    /\ UNCHANGED << noop, project, sha, prLookups >>
    /\ UNCHANGED reportVars

\* ci_status.go:107-113
LocalProject ==
    /\ pc = "project"
    /\ IF project = ""
       THEN \E outcome \in { "repo_err", "main_err", "ok" } :
              /\ project' = IF outcome = "ok" THEN "local/main" ELSE ""
              /\ pc' = Check(outcome # "ok", "ref")
       ELSE /\ pc' = "ref"
            /\ UNCHANGED project
    /\ UNCHANGED << params, noop, ref, sha, prLookups >>
    /\ UNCHANGED reportVars

\* faulty variant of GitRef: the error of git.Ref is dropped
GitRefUnchecked ==
    /\ pc = "ref"
    /\ \E ok \in BOOLEAN :
         /\ sha' = IF ok THEN "rev:" \o ref ELSE ""
         /\ pc' = "request"
    /\ UNCHANGED << params, noop, ref, project, prLookups >>
    /\ UNCHANGED reportVars

\* ci_status.go:115-119
GitRef ==
    /\ pc = "ref"
    /\ \E ok \in BOOLEAN :
         /\ sha' = IF ok THEN "rev:" \o ref ELSE ""
         /\ pc' = Check(~ok, "request")
    /\ UNCHANGED << params, noop, ref, project, prLookups >>
    /\ UNCHANGED reportVars

\* ci_status.go:121-122
NoopRequest ==
    /\ pc = "request"
    /\ noop
    /\ output' = Append(output, printedLine("Would request CI status for " \o sha))
    /\ pc' = "returned"
    /\ UNCHANGED << params, noop, ref, project, sha, prLookups, Statuses, fetched,
                    state, exitCode, flagVerbose, formatReceived, formatValue,
                    colorize, rendered, fetchCalls >>

\* ci_status.go:124-126
Fetch ==
    /\ pc = "request"
    /\ ~noop
    /\ fetchCalls' = fetchCalls + 1
    /\ \/ /\ pc' = Check(TRUE, "report")
          /\ UNCHANGED << Statuses, fetched >>
       \/ \E list \in CheckLists :
            /\ Statuses' = list
            /\ fetched' = list
            /\ pc' = Check(FALSE, "report")
    /\ UNCHANGED << params, noop, ref, project, sha, prLookups, state, exitCode,
                    flagVerbose, formatReceived, formatValue, colorize, rendered,
                    output >>

\* ci_status.go:128-161: aggregate, choose the exit code, print, exit
Report ==
    /\ pc = "report"
    /\ \E v \in BOOLEAN, received \in BOOLEAN, c \in BOOLEAN :
       \E f \in IF received THEN FormatSamples ELSE { "" } :
         LET st      == aggregate(Statuses)
             verbose == v \/ received
         IN  /\ state' = st
             /\ flagVerbose' = v
             /\ formatReceived' = received
             /\ formatValue' = f
             /\ IF verbose /\ Len(Statuses) > 0
                THEN LET r == ciVerboseFormat(Statuses, f, c)
                     IN  /\ colorize' = c
                         /\ rendered' = TRUE
                         /\ Statuses' = r.statuses
                         /\ output' = output \o r.printed
                ELSE /\ c = FALSE
                     /\ UNCHANGED << colorize, rendered, Statuses >>
                     /\ output' = Append(output,
                                    printedLine(IF st # "" THEN st ELSE "no status"))
             /\ exitCode' = << exitCodeOf(st) >>
    /\ pc' = "exited"
    /\ UNCHANGED << params, noop, ref, project, sha, prLookups, fetched, fetchCalls >>

Next ==
    \/ ResolveNoArg
    \/ ResolvePullRequestId
    \/ ResolvePullRequestUrl
    \/ ResolvePlainRef
    \/ LocalProject
    \/ GitRef
    \/ NoopRequest
    \/ Fetch
    \/ Report

Spec == Init /\ [][Next]_vars

(* ---------------------- what the claims speak of ---------------------- *)

\* the severity order as the specification lists it, lowest first
ClaimSeverityOrder ==
    << "neutral", "success", "pending", "cancelled", "timed_out",
       "action_required", "failure", "error" >>

ClaimRecognized == { ClaimSeverityOrder[i] : i \in 1..Len(ClaimSeverityOrder) }

ClaimSeverity(s) ==
    CHOOSE i \in 1..Len(ClaimSeverityOrder) : ClaimSeverityOrder[i] = s

ClaimFailing == { "failure", "error", "action_required", "cancelled", "timed_out" }

\* the exit-code table; the empty state is not in the table of C2 and takes
\* the value of "any other" state
ClaimExitTable(s) ==
    IF s \in { "success", "neutral" } THEN 0
    ELSE IF s \in ClaimFailing THEN 1
    ELSE IF s = "pending" THEN 2
    ELSE 3

\* display rank: failing family 1, pending and unrecognized 2, success and neutral 3
ClaimRank(s) ==
    IF s \in ClaimFailing THEN 1
    ELSE IF s \in { "success", "neutral" } THEN 3
    ELSE 2

\* the colour-start escape of each state that has a marker
ClaimEscape(s) ==
    IF s = "success" THEN "\\033[32m"
    ELSE IF s \in ClaimFailing THEN "\\033[31m"
    ELSE IF s = "neutral" THEN "\\033[30m"
    ELSE "\\033[33m"

Exited == pc = "exited"

VerboseMode == flagVerbose \/ formatReceived

\* the checks in emitted order, read back from the expanded entries
Emitted ==
    [ i \in 1..Len(output) |->
        [ State |-> output[i].S, Context |-> output[i].t, TargetUrl |-> output[i].U ] ]

\* a and b hold the same elements, each as often
SameElements(a, b) ==
    /\ Len(a) = Len(b)
    /\ \A i \in 1..Len(a) :
         Cardinality({ j \in 1..Len(a) : a[j] = a[i] })
           = Cardinality({ j \in 1..Len(b) : b[j] = a[i] })

\* s filtered to the checks of display rank r, in the order of s
OfRank(s, r) ==
    LET Test(x) == ClaimRank(x.State) = r
    IN  SelectSeq(s, Test)

(* -------------------------------- C1 ---------------------------------- *)

\* C1: for a non-empty fetched list whose states are all recognized, the
\* overall state is the state of the first check of maximal severity in the
\* order neutral < success < pending < cancelled < timed_out <
\* action_required < failure < error.
C1_MaxSeverityFirst ==
    ( /\ Exited
      /\ fetched # <<>>
      /\ \A i \in 1..Len(fetched) : fetched[i].State \in ClaimRecognized )
    => LET Sev(i) == ClaimSeverity(fetched[i].State)
           m == CHOOSE i \in 1..Len(fetched) :
                    /\ \A j \in 1..Len(fetched) : Sev(j) <= Sev(i)
                    /\ \A j \in 1..(i - 1) : Sev(j) < Sev(i)
       IN  state = fetched[m].State

\* three recognized checks, the maximal severity shared by the last two
C1_Witness ==
    /\ Exited
    /\ Len(fetched) = 3
    /\ fetched[1].State = "pending"
    /\ fetched[2].State = "cancelled"
    /\ fetched[3].State = "cancelled"
    /\ state = "cancelled"

(* -------------------------------- C2 ---------------------------------- *)

\* C2: the exit code is a function of the overall state alone: success and
\* neutral give 0, the failing family 1, pending 2, any other state 3; the
\* switch gives these values on every state string, and every run that
\* reports exits with the code of its aggregated state.
C2_ExitCodeTable ==
    /\ \A s \in AllStates \ { "" } : exitCodeOf(s) = ClaimExitTable(s)
    /\ Exited => exitCode = << ClaimExitTable(state) >>

\* a run whose overall state is pending has exited with 2
C2_Witness ==
    /\ Exited
    /\ Len(fetched) = 2
    /\ state = "pending"
    /\ exitCode = << 2 >>

(* -------------------------------- C3 ---------------------------------- *)

C4_Claim ==
    (Exited /\ fetched # <<>>)
    => /\ \E i \in 1..Len(fetched) : state = fetched[i].State
       /\ ( /\ Len(fetched) = 1
            /\ fetched[1].State = "unknown_state" )
          => /\ state = "unknown_state"
             /\ exitCode = << 3 >>
             /\ ~VerboseMode => output = << printedLine("unknown_state") >>

(* -------------------------------- C5 ---------------------------------- *)

\* C5: when at least one fetched check has a recognized state, the overall
\* state is a recognized state and the exit code is not 3, wherever the
\* unrecognized checks stand in the list.
C5_RecognizedWins ==
    ( /\ Exited
      /\ \E i \in 1..Len(fetched) : fetched[i].State \in ClaimRecognized )
    => /\ state \in ClaimRecognized
       /\ exitCode # << 3 >>

\* the lowest recognized state between two unrecognized checks
C5_Witness ==
    /\ Exited
    /\ Len(fetched) = 3
    /\ fetched[1].State = "unknown_state"
    /\ fetched[2].State = "neutral"
    /\ fetched[3].State = "unknown_state"
    /\ state = "neutral"
    /\ exitCode = << 0 >>

(* -------------------------------- C6 ---------------------------------- *)

\* C6 as claimed: after ciVerboseFormat returns, response.Statuses has the
\* same elements in the same order as before the call.
C6_Original == (Exited /\ rendered) => Statuses = fetched

\* C6 as amended: after ciVerboseFormat returns, response.Statuses has the
\* same elements as before the call, reordered in place into display-rank
\* order (it is the caller's slice that is sorted, not a copy); the overall
\* state and the exit code are those of the list as it was fetched.  When the
\* renderer is not called the list is as it was fetched.
C6_SortedInPlace ==
    Exited =>
      /\ rendered =>
           /\ SameElements(Statuses, fetched)
           /\ \A i \in 1..(Len(Statuses) - 1) :
                ClaimRank(Statuses[i].State) <= ClaimRank(Statuses[i + 1].State)
      /\ ~rendered => Statuses = fetched
      /\ state = aggregate(fetched)
      /\ exitCode = << exitCodeOf(aggregate(fetched)) >>

\* the renderer has run on a list that was not in display order
C6_Witness ==
    /\ Exited
    /\ rendered
    /\ Len(fetched) = 3
    /\ fetched[1].State = "success"
    /\ fetched[2].State = "unknown_state"
    /\ fetched[3].State = "failure"
    /\ Statuses # fetched

(* -------------------------------- C7 ---------------------------------- *)

\* C7: the renderer emits the fetched checks in the order of a stable sort by
\* display rank: all of rank 1, then all of rank 2, then all of rank 3, each
\* group in its input order, every check once.
C7_StableDisplayOrder ==
    (Exited /\ rendered)
    => /\ \A i \in 1..Len(output) : output[i].kind = "expand"
       /\ Emitted = OfRank(fetched, 1) \o OfRank(fetched, 2) \o OfRank(fetched, 3)

\* two checks of rank 2 in front of one of rank 1
C7_Witness ==
    /\ Exited
    /\ rendered
    /\ Len(fetched) = 3
    /\ fetched[1].State = "unknown_state"
    /\ fetched[2].State = "pending"
    /\ fetched[3].State = "cancelled"
    /\ Emitted = << fetched[3], fetched[1], fetched[2] >>

(* -------------------------------- C8 ---------------------------------- *)

\* C8: for a non-empty fetched list exactly one output mode runs: in verbose
\* mode (--verbose, or a --format string) no summary line is printed and the
\* renderer emits one expanded entry per check; otherwise the one line printed
\* is the overall state and the renderer is not called.  The exit code is the
\* one of the overall state in both modes.
C8_Claim ==
    (Exited /\ fetched # <<>>)
    => /\ IF VerboseMode
          THEN /\ rendered
               /\ Len(output) = Len(fetched)
               /\ \A i \in 1..Len(output) : output[i].kind = "expand"
          ELSE /\ ~rendered
               /\ output = << printedLine(state) >>
       /\ exitCode = << ClaimExitTable(state) >>

(* -------------------------------- C9 ---------------------------------- *)

\* C9 as claimed: sC is the colour-start escape of the marker's colour when
\* colorize is enabled and empty when it is disabled; a check whose state has
\* no marker has an empty marker and an empty sC, colorize or not.
C9_Original ==
    Exited =>
      \A i \in 1..Len(output) :
        output[i].kind = "expand" =>
          IF output[i].S \in ClaimRecognized
          THEN output[i].sC =
                 IF output[i].colorize THEN ClaimEscape(output[i].S) ELSE ""
          ELSE /\ output[i].marker = ""
               /\ output[i].sC = ""

\* C9 as amended: sC is the colour-start escape of the marker's colour when
\* colorize is enabled and empty when it is disabled; a check whose state has
\* no marker has an empty marker, and its sC is empty when colorize is
\* disabled and the escape of colour 0 when colorize is enabled.
C9_ColorPlaceholder ==
    Exited =>
      \A i \in 1..Len(output) :
        output[i].kind = "expand" =>
          /\ output[i].colorize = colorize
          /\ IF output[i].S \in ClaimRecognized
             THEN /\ output[i].marker # ""
                  /\ output[i].sC =
                       IF colorize THEN ClaimEscape(output[i].S) ELSE ""
             ELSE /\ output[i].marker = ""
                  /\ output[i].sC = IF colorize THEN "\\033[0m" ELSE ""

\* a coloured rendering of a pending check and of an unrecognized one
C9_Witness ==
    /\ Exited
    /\ rendered
    /\ colorize
    /\ Len(output) = 2
    /\ output[1].S = "pending"
    /\ output[1].sC = "\\033[33m"
    /\ output[2].S = "unknown_state"

(* -------------------------------- C10 --------------------------------- *)

\* C10: a failed resolution (pull-request lookup, a URL without pull/<id>,
\* git.Ref) ends the run before any fetch; a failed fetch ends it with no
\* overall state, no printed line and no exit through the exit-code switch;
\* nothing runs after a fatal error and no call is made twice.
C10_FatalAborts ==
    /\ fetchCalls <= 1
    /\ prLookups <= 1
    /\ fetchCalls = 1 => (sha # "" /\ project # "" /\ ref # "")
    /\ pc = "fatal" =>
         /\ state = ""
         /\ exitCode = <<>>
         /\ output = <<>>
         /\ ~rendered
         /\ Statuses = <<>>
         /\ ~ENABLED Next

\* the fetch itself has failed
C10_Witness ==
    /\ pc = "fatal"
    /\ fetchCalls = 1
    /\ prLookups = 1
    /\ project = "owner/repo"

====
